---- MODULE Spec2Model ----
(***************************************************************************)
(* Timesheet / absence reconciliation engine of the CRA application.       *)
(*                                                                         *)
(* Every HTTP handler is one atomic step (one unit of work on the shared   *)
(* SQLAlchemy session, committed or rolled back before the response),      *)
(* except in SpecRace, where a Create is split into its checks and its     *)
(* commit and two workers serve Creates side by side.                      *)
(*                                                                         *)
(* Amounts.  The source names the amount of a row `number_of_hours` in     *)
(* some places and `time_fraction` in others (one column, one concept).    *)
(* The model keeps every amount in hours; time_fraction f is the amount    *)
(* f * HoursPerDay, so `time_fraction == 1.0` reads hours = HoursPerDay,   *)
(* `time_fraction == 0.5` reads hours = HalfDay, and the limit of 25 days  *)
(* reads 25 * 8 hours, as create_absence_request writes it.                *)
(*                                                                         *)
(* Dates are 1..NumDates.  A day row of a request is identified by its     *)
(* date (unique within a request), which stands for AbsenceRequestDay.id.  *)
(***************************************************************************)
EXTENDS Integers, Sequences, FiniteSets, TLC

\* ---------------------------------------------------------------- bounds
NumDates == 2          \* calendar dates of the model
MaxRequests == 2       \* absence requests that can exist at once
MaxDayList == 2        \* longest `days` / `day_decisions` list of a request body
CapDays == 1           \* annual limit in days (25 in the source), scaled down
MaxEntryId == 3        \* largest id a DailyTimesheetEntry row can take
MaxTimesheetId == 3    \* largest id a MonthlyTimesheet row can take

\* ------------------------------------------------------ program constants
HoursPerDay == 8
DailyCeilingHours == 24

HalfDay == HoursPerDay \div 2
AnnualCapHours == CapDays * HoursPerDay

Consultants == {1, 2}
Dates == 1..NumDates
RequestIds == 1..MaxRequests

\* AbsenceRequestType: one capped type and the uncapped CONGES_SANS_SOLDE
CP == "CP"
CONGES_SANS_SOLDE == "Conges Sans Solde"
AbsenceRequestType == {CP, CONGES_SANS_SOLDE}

\* AbsenceRequestStatus
SAVED == "saved"
PENDING == "pending"
ACCEPTED == "accepted"
REFUSED == "refused"
PARTIALLY_ACCEPTED == "partially_accepted"
AbsenceRequestStatus == {SAVED, PENDING, ACCEPTED, REFUSED, PARTIALLY_ACCEPTED}

\* The calendar: dates 1 and 2 are two days of one month of the current year
\* (datetime.now().year); every later date is in a month of its own, in the
\* year after.
CurrentYear == 2025
YearOf(d) == IF d <= 2 THEN CurrentYear ELSE CurrentYear + 1
MonthOf(d) == IF d <= 2 THEN 1 ELSE d - 1

VARIABLES
    requests,   \* AbsenceRequest rows: id -> [consultant, type, status,
                \*                             commentary, justification]
    days,       \* AbsenceRequestDay rows: set of [rid, date, hours, status]
    timesheets, \* MonthlyTimesheet rows: set of [id, consultant, month, status]
    entries,    \* DailyTimesheetEntry rows
    timesheet_entry, \* TimesheetEntry rows of the single-file application (src/app.py)
    resp,       \* the last request served and its response
    inflight    \* worker -> the Create it is serving between its checks and
                \*           its commit (Idle when it serves none)

vars == <<requests, days, timesheets, entries, timesheet_entry, resp, inflight>>

\* the stored rows
db == <<requests, days, timesheets, entries, timesheet_entry>>

\* ------------------------------------------------------------- helpers
RECURSIVE SumHours(_)
SumHours(S) ==
    IF S = {} THEN 0
    ELSE LET x == CHOOSE y \in S : TRUE IN x.hours + SumHours(S \ {x})

RECURSIVE SumSeqHours(_)
SumSeqHours(s) ==
    IF s = <<>> THEN 0 ELSE Head(s).hours + SumSeqHours(Tail(s))

MaxOf(S) == IF S = {} THEN 0 ELSE CHOOSE x \in S : \A y \in S : y <= x

\* The response of a handler: the HTTP status, the error and, for the error of
\* the annual limit, the remaining hours it reports; a success carries the id
\* of the request it served (and a review its decision list, from which the
\* counts of the response are taken).
Response(op, code, err, val) ==
    [op |-> op, code |-> code, err |-> err, val |-> val, rid |-> 0, arg |-> <<>>]
Success(op, code, rid, arg) ==
    [op |-> op, code |-> code, err |-> "", val |-> 0, rid |-> rid, arg |-> arg]

ConsultantOf(rid) == requests[rid].consultant

DaysOf(rid) == {d \in days : d.rid = rid}

\* ActivityType
PROJECT == "project"
INTERNAL == "internal"
ABSENCE == "absence"

\* TimesheetStatus
TS_SAVED == "saved"
TS_PENDING == "pending"
TS_VALIDATED == "validated"
TS_REFUSED == "refused"
TimesheetStatus == {TS_SAVED, TS_PENDING, TS_VALIDATED, TS_REFUSED}

\* ProjectAssignment rows: assignment i links consultant i to a project
AssignmentConsultant(m) == m

\* -------------------------------------------------- storage constraints
\* UniqueConstraint('absence_request_id', 'absence_date')
UniqueAbsenceDay(dl) ==
    \A i, j \in 1..Len(dl) : dl[i].date = dl[j].date => i = j

\* a constraint relaxed to one row per consultant, date and absence request
UniqueDailyEntry_PerRequest(E) ==
    \A e1, e2 \in E :
        (e1.consultant = e2.consultant /\ e1.date = e2.date /\ e1.rid = e2.rid)
            => e1 = e2

\* UniqueConstraint('consultant_id', 'work_date') on DailyTimesheetEntry
UniqueDailyEntry(E) ==
    \A e1, e2 \in E :
        (e1.consultant = e2.consultant /\ e1.date = e2.date) => e1 = e2

\* UniqueConstraint('consultant_id', 'month', 'year') on MonthlyTimesheet
UniqueMonthlyTimesheet(T) ==
    \A t1, t2 \in T :
        (t1.consultant = t2.consultant /\ t1.month = t2.month) => t1 = t2

\* ------------------------------------------------ timesheet reconciliation
NewEntryId(E) == MaxOf({e.id : e \in E}) + 1

\* the ids of the rows stay within the bound of the model
IdsInRange(E) == \A e \in E : e.id <= MaxEntryId

AbsenceEntry(E, c, rid, date, hours) ==
    [id |-> NewEntryId(E), ts |-> 0, consultant |-> c, date |-> date,
     activity |-> ABSENCE, hours |-> hours, status |-> TS_PENDING,
     rid |-> rid, mission |-> 0]

\* daily_entries[0].time_fraction = 0.5
Shrink(e) == [e EXCEPT !.hours = HalfDay]

\* a half-day branch that only ever deletes the last entry of a full date
HalfDayAdjust_LastOnly(daily) ==
    LET first == CHOOSE e \in daily : \A f \in daily : e.id <= f.id
        last == CHOOSE e \in daily : \A f \in daily : f.id <= e.id
        total == SumHours(daily)
    IN  IF total = HoursPerDay
        THEN IF Cardinality(daily) = 1
             THEN {Shrink(first)}
             ELSE daily \ {last}
        ELSE IF total = HalfDay
             THEN daily
             ELSE {Shrink(first)}

\* The half-day branch: which non-absence entries of the date survive.
\* `daily` is the set of the date's non-absence entries, ordered by id.
HalfDayAdjust(daily) ==
    LET first == CHOOSE e \in daily : \A f \in daily : e.id <= f.id
        last == CHOOSE e \in daily : \A f \in daily : f.id <= e.id
        total == SumHours(daily)
    IN  IF total = HoursPerDay
        THEN IF Cardinality(daily) = 1
             THEN {Shrink(first)}
             ELSE IF total - last.hours > HalfDay
                  THEN {Shrink(first)}
                  ELSE daily \ {last}
        ELSE IF total = HalfDay
             THEN daily
             ELSE {Shrink(first)}

\* One absence day against the consultant's entries.  skipValidated is the
\* `status != 'validated'` filter of update_absence_request's month query,
\* which review_absence_request's month query does not have.
ReconcileDay(E, c, rid, date, hours, skipValidated) ==
    LET submitted == \E e \in E :
            /\ e.consultant = c
            /\ MonthOf(e.date) = MonthOf(date)
            /\ (skipValidated => e.status # TS_VALIDATED)
        daily == {e \in E : e.consultant = c /\ e.date = date /\ e.activity # ABSENCE}
    IN  IF ~submitted THEN E
        ELSE IF daily # {}
        THEN IF hours = HoursPerDay
             THEN LET kept == E \ daily
                  IN kept \cup {AbsenceEntry(kept, c, rid, date, HoursPerDay)}
             ELSE IF hours = HalfDay
             THEN LET kept == (E \ daily) \cup HalfDayAdjust(daily)
                  IN kept \cup {AbsenceEntry(kept, c, rid, date, HalfDay)}
             ELSE E
        ELSE E \cup {AbsenceEntry(E, c, rid, date, hours)}

\* The loop over the days of a request body, in list order.
RECURSIVE ReconcileAll(_, _, _, _, _)
ReconcileAll(E, c, rid, dl, skipValidated) ==
    IF dl = <<>> THEN E
    ELSE ReconcileAll(ReconcileDay(E, c, rid, Head(dl).date, Head(dl).hours, skipValidated),
                      c, rid, Tail(dl), skipValidated)

\* for entry in month_entries: entry.status = 'pending'
SetMonthsPending(E, c, months) ==
    {IF e.consultant = c /\ MonthOf(e.date) \in months
     THEN [e EXCEPT !.status = TS_PENDING] ELSE e : e \in E}

\* ------------------------------------------------------- absence requests
\* a conflict query that looks at drafts only
CreateConflictStatuses_SavedOnly == {SAVED}

\* AbsenceRequestDay.status.in_([...]) of the two conflict queries
CreateConflictStatuses == {PENDING, ACCEPTED, SAVED}
UpdateConflictStatuses == {PENDING, ACCEPTED}

\* AbsenceRequestDay.status.in_([...]) of the two annual-limit queries
CreateCountedStatuses == {ACCEPTED, PENDING, SAVED}
UpdateCountedStatuses == {ACCEPTED, PENDING}

\* The conflict query: a day of the consultant on `date` with one of
\* `statuses`, in a request other than exceptRid (0: no request is excluded).
ExistingAbsence(c, date, statuses, exceptRid) ==
    \E d \in days :
        /\ d.rid # exceptRid
        /\ ConsultantOf(d.rid) = c
        /\ d.date = date
        /\ d.status \in statuses

\* an annual-limit query without the filter on the absence type
ExistingHours_AllTypes(c, statuses, exceptRid) ==
    SumHours({d \in days :
        /\ d.rid # exceptRid
        /\ requests[d.rid].consultant = c
        /\ d.status \in statuses
        /\ YearOf(d.date) = CurrentYear})

\* an annual-limit query that also counts the request being edited
ExistingHours_CountOwn(c, statuses, exceptRid) ==
    SumHours({d \in days :
        /\ ConsultantOf(d.rid) = c
        /\ requests[d.rid].type # CONGES_SANS_SOLDE
        /\ d.status \in statuses
        /\ YearOf(d.date) = CurrentYear})

\* The annual-limit query: func.sum of the consultant's counted hours.
ExistingHours(c, statuses, exceptRid) ==
    SumHours({d \in days :
        /\ d.rid # exceptRid
        /\ ConsultantOf(d.rid) = c
        /\ requests[d.rid].type # CONGES_SANS_SOLDE
        /\ d.status \in statuses
        /\ YearOf(d.date) = CurrentYear})

\* if number_of_hours > 8.0001
HoursTooLong(h) == h > HoursPerDay

\* a limit that lets one more day through
LimitExceeded_OffByDay(existing, requested) ==
    existing + requested > AnnualCapHours + HoursPerDay

\* if existing_hours + total_hours_requested > 25 * 8
LimitExceeded(existing, requested) == existing + requested > AnnualCapHours

\* max(0, 25 * 8 - existing_hours)
RemainingHours(existing) ==
    IF AnnualCapHours - existing > 0 THEN AnnualCapHours - existing ELSE 0

NewRequestId == MaxOf(DOMAIN requests) + 1

\* a teardown that leaves the writes of the unit of work in the database
Teardown_KeepsWrites(committed, dirty) == dirty

\* The end of a request that returns without db.session.commit(): the
\* session is removed with its writes, the database keeps the committed rows.
\* committed, dirty: <<requests, days, timesheets, entries, timesheet_entry>>
Teardown(committed, dirty) == committed

\* a handler that returns the error r after the writes `dirty`
Failed(r, dirty) ==
    /\ resp' = r
    /\ requests' = Teardown(db, dirty)[1]
    /\ days' = Teardown(db, dirty)[2]
    /\ timesheets' = Teardown(db, dirty)[3]
    /\ entries' = Teardown(db, dirty)[4]
    /\ timesheet_entry' = Teardown(db, dirty)[5]
    /\ UNCHANGED inflight

Unchanged(r) ==
    /\ resp' = r
    /\ UNCHANGED <<db, inflight>>

\* a set of day rows as a list, in row order
RECURSIVE DayList(_)
DayList(S) ==
    IF S = {} THEN <<>>
    ELSE LET d == CHOOSE x \in S : \A y \in S : x.date <= y.date
         IN <<d>> \o DayList(S \ {d})

\* data.get('commentary'), data.get('justification') of a body without the key
None == "None"

\* POST /api/absence-requests
\* dl: the parsed `days` list, st: the `status` of the body (default saved),
\* commentary, justification: the two texts of the body (None when absent).
CreateAbsenceRequestBody(c, typ, commentary, justification, dl, st) ==
    /\ NewRequestId <= MaxRequests
    /\ Len(dl) > 0
    /\ IF \E i \in 1..Len(dl) : HoursTooLong(dl[i].hours)
       THEN Unchanged(Response("create", 400, "hours", 0))
       ELSE IF \E i \in 1..Len(dl) :
                   ExistingAbsence(c, dl[i].date, CreateConflictStatuses, 0)
       THEN Unchanged(Response("create", 400, "conflict", 0))
       ELSE IF /\ typ # CONGES_SANS_SOLDE
               /\ LimitExceeded(ExistingHours(c, CreateCountedStatuses, 0), SumSeqHours(dl))
       THEN Unchanged(Response("create", 400, "limit",
                RemainingHours(ExistingHours(c, CreateCountedStatuses, 0))))
       ELSE IF ~UniqueAbsenceDay(dl)
       THEN Unchanged(Response("create", 500, "failed", 0))
       ELSE LET rid == NewRequestId IN
            /\ requests' = [r \in DOMAIN requests \cup {rid} |->
                    IF r = rid
                    THEN [consultant |-> c, type |-> typ, status |-> st,
                          commentary |-> commentary,
                          justification |-> justification]
                    ELSE requests[r]]
            /\ days' = days \cup
                    {[rid |-> rid, date |-> dl[i].date, hours |-> dl[i].hours,
                      status |-> st] : i \in 1..Len(dl)}
            /\ resp' = Success("create", 201, rid, <<>>)
            /\ UNCHANGED <<timesheets, entries, timesheet_entry, inflight>>

\* POST /api/absence-requests with a body that has no commentary and no
\* justification key
CreateAbsenceRequest(c, typ, dl, st) ==
    CreateAbsenceRequestBody(c, typ, None, None, dl, st)

\* a view that returns the commentary in the place of the justification
Retrieved_TextsMixed(rid) ==
    [type |-> requests[rid].type,
     commentary |-> requests[rid].commentary,
     justification |-> requests[rid].commentary,
     status |-> requests[rid].status,
     days |-> [i \in 1..Cardinality(DaysOf(rid)) |->
                [date |-> DayList(DaysOf(rid))[i].date,
                 hours |-> DayList(DaysOf(rid))[i].hours,
                 status |-> DayList(DaysOf(rid))[i].status]]]

\* the body get_absence_request builds from the stored request and its day
\* rows (the amount of a day is the one column, whatever its name)
Retrieved(rid) ==
    [type |-> requests[rid].type,
     commentary |-> requests[rid].commentary,
     justification |-> requests[rid].justification,
     status |-> requests[rid].status,
     days |-> [i \in 1..Cardinality(DaysOf(rid)) |->
                [date |-> DayList(DaysOf(rid))[i].date,
                 hours |-> DayList(DaysOf(rid))[i].hours,
                 status |-> DayList(DaysOf(rid))[i].status]]]

\* GET /api/absence-requests/<id>
GetAbsenceRequest(rid) ==
    IF rid \notin DOMAIN requests
    THEN Unchanged(Response("get", 404, "not_found", 0))
    ELSE Unchanged(Success("get", 200, rid, Retrieved(rid)))

\* analyze_affected_months: some month touched by the old or the new days has
\* a first timesheet entry in status validated and a changed set of days.
ValidatedMonthModified(c, old, dl) ==
    LET new == {[date |-> dl[i].date, hours |-> dl[i].hours] : i \in 1..Len(dl)}
        oldSet == {[date |-> d.date, hours |-> d.hours] : d \in old}
        months == {MonthOf(d.date) : d \in oldSet \cup new}
    IN \E m \in months :
        LET monthEntries == {e \in entries : e.consultant = c /\ MonthOf(e.date) = m}
            first == CHOOSE e \in monthEntries : \A f \in monthEntries : e.id <= f.id
        IN /\ monthEntries # {}
           /\ first.status = TS_VALIDATED
           /\ {d \in oldSet : MonthOf(d.date) = m} # {d \in new : MonthOf(d.date) = m}

\* if time_fraction not in [0.5, 1.0]
BadFraction(h) == h \notin {HalfDay, HoursPerDay}

\* a list of updatable statuses that lets every status through
UpdatableStatuses_All == AbsenceRequestStatus

\* the statuses update_absence_request accepts for the request being edited
UpdatableStatuses == {PENDING, REFUSED, ACCEPTED}

\* an update that adds the new day rows without deleting the old ones
DaysAfterUpdate_KeepOld(rid, dl) ==
    days \cup {[rid |-> rid, date |-> dl[i].date, hours |-> dl[i].hours,
                status |-> PENDING] : i \in 1..Len(dl)}

\* the day rows once the rows of the request are deleted and the new list is
\* inserted (a new row takes the column default, pending)
DaysAfterUpdate(rid, dl) ==
    (days \ DaysOf(rid)) \cup
        {[rid |-> rid, date |-> dl[i].date, hours |-> dl[i].hours,
          status |-> PENDING] : i \in 1..Len(dl)}

\* PUT /api/absence-requests/<id>
\* typ: the new absence_type ("" keeps the current one); dl: the `days`
\* replacement list (<<>>: no `days` key); st: the `status` of the body
\* ("" for none); hr: reviewed_by is 'hr@company.com'.
UpdateAbsenceRequest(rid, typ, dl, st, hr) ==
    /\ rid \in DOMAIN requests
    /\ LET req == requests[rid]
           c == req.consultant
           newType == IF typ = "" THEN req.type ELSE typ
           newStatus == IF st = "" THEN PENDING ELSE st
           kept == {e \in entries : ~(e.rid = rid /\ e.status # TS_VALIDATED)}
           newEntries == ReconcileAll(kept, c, rid, dl, TRUE)
       IN
       IF req.status \notin UpdatableStatuses
       THEN Unchanged(Response("update", 400, "status", 0))
       ELSE IF req.status = ACCEPTED /\ ~hr
       THEN Unchanged(Response("update", 400, "reviewed_by", 0))
       ELSE IF \E i \in 1..Len(dl) : BadFraction(dl[i].hours)
       THEN Unchanged(Response("update", 400, "fraction", 0))
       ELSE IF dl # <<>> /\ req.status = REFUSED /\ ValidatedMonthModified(c, DaysOf(rid), dl)
       THEN Unchanged(Response("update", 400, "validated", 0))
       ELSE IF \E i \in 1..Len(dl) :
                   ExistingAbsence(c, dl[i].date, UpdateConflictStatuses, rid)
       THEN Unchanged(Response("update", 400, "conflict", 0))
       ELSE IF /\ dl # <<>>
               /\ newType # CONGES_SANS_SOLDE
               /\ LimitExceeded(ExistingHours(c, UpdateCountedStatuses, rid), SumSeqHours(dl))
       THEN Unchanged(Response("update", 400, "limit",
                RemainingHours(ExistingHours(c, UpdateCountedStatuses, rid))))
       ELSE IF newStatus \notin UpdatableStatuses
       THEN Failed(Response("update", 400, "new_status", 0),
                   <<[requests EXCEPT ![rid] = [req EXCEPT !.type = newType]],
                     IF dl = <<>> THEN days ELSE DaysAfterUpdate(rid, dl),
                     timesheets,
                     IF dl = <<>> THEN entries ELSE newEntries,
                     timesheet_entry>>)
       ELSE IF dl # <<>> /\ (~UniqueAbsenceDay(dl) \/ ~UniqueDailyEntry(newEntries))
       THEN Unchanged(Response("update", 500, "failed", 0))
       ELSE /\ dl # <<>> => IdsInRange(newEntries)
            /\ requests' = [requests EXCEPT ![rid] =
                    [req EXCEPT !.type = newType, !.status = newStatus]]
            /\ days' = IF dl = <<>> THEN days ELSE DaysAfterUpdate(rid, dl)
            /\ entries' = IF dl = <<>> THEN entries ELSE newEntries
            /\ resp' = Success("update", 200, rid, <<>>)
            /\ UNCHANGED <<timesheets, timesheet_entry, inflight>>

\* ------------------------------------------------------------- review
\* a check of the decisions that also requires the request to be pending
DecisionsValid_PendingOnly(rid, dec) ==
    /\ requests[rid].status = PENDING
    /\ \A i \in 1..Len(dec) :
        /\ \E d \in days : d.rid = rid /\ d.date = dec[i].day
        /\ dec[i].status \in {ACCEPTED, REFUSED}

\* A decision list is a sequence of [day, status]; `day` is the day id.
\* Each decision must name a day of the request and carry accepted / refused.
DecisionsValid(rid, dec) ==
    \A i \in 1..Len(dec) :
        /\ \E d \in DaysOf(rid) : d.date = dec[i].day
        /\ dec[i].status \in {ACCEPTED, REFUSED}

\* accepted_count / refused_count: one per decision of the list
CountDecisions(dec, status) ==
    Cardinality({i \in 1..Len(dec) : dec[i].status = status})

\* a review that sends a day already in the decided status back to pending
DayAfterReview_Toggle(d, dec) ==
    LET mine == {i \in 1..Len(dec) : dec[i].day = d.date}
        last == CHOOSE i \in mine : \A j \in mine : j <= i
    IN IF mine = {} THEN d
       ELSE IF d.status = dec[last].status THEN [d EXCEPT !.status = PENDING]
       ELSE [d EXCEPT !.status = dec[last].status]

\* day.status = new_status, decision after decision
DayAfterReview(d, dec) ==
    LET mine == {i \in 1..Len(dec) : dec[i].day = d.date}
    IN IF mine = {} THEN d
       ELSE [d EXCEPT !.status = dec[MaxOf(mine)].status]

\* the request-level status derived from the two counters
AggregateStatus(accepted, refused, total) ==
    IF accepted = total THEN ACCEPTED
    ELSE IF refused = total THEN REFUSED
    ELSE PARTIALLY_ACCEPTED

\* PUT /api/absence-requests/<id>/review
ReviewAbsenceRequest(rid, dec) ==
    /\ rid \in DOMAIN requests
    /\ LET req == requests[rid]
           c == req.consultant
           reviewed == {DayAfterReview(d, dec) : d \in DaysOf(rid)}
           newStatus == AggregateStatus(CountDecisions(dec, ACCEPTED),
                                        CountDecisions(dec, REFUSED),
                                        Cardinality(DaysOf(rid)))
           bad == {i \in 1..Len(dec) : ~DecisionsValid(rid, <<dec[i]>>)}
           applied == SubSeq(dec, 1, MaxOf({i \in 1..Len(dec) :
                                              \A j \in bad : i < j}))
           acceptedDays == {d \in reviewed : d.status = ACCEPTED}
           affected == {MonthOf(d.date) : d \in {x \in acceptedDays :
                            \E e \in entries : e.consultant = c
                                               /\ MonthOf(e.date) = MonthOf(x.date)}}
           newEntries ==
               IF req.status = REFUSED /\ newStatus \in {ACCEPTED, PARTIALLY_ACCEPTED}
               THEN SetMonthsPending(
                        ReconcileAll(entries, c, rid, DayList(acceptedDays), FALSE),
                        c, affected)
               ELSE IF CountDecisions(dec, REFUSED) > 0
               THEN {e \in entries : e.rid # rid}
               ELSE entries
       IN
       IF ~DecisionsValid(rid, dec)
       THEN Failed(Response("review", 400, "decision", 0),
                   <<requests,
                     (days \ DaysOf(rid))
                        \cup {DayAfterReview(d, applied) : d \in DaysOf(rid)},
                     timesheets, entries, timesheet_entry>>)
       ELSE IF ~UniqueDailyEntry(newEntries)
       THEN Unchanged(Response("review", 500, "failed", 0))
       ELSE /\ IdsInRange(newEntries)
            /\ requests' = [requests EXCEPT ![rid].status = newStatus]
            /\ days' = (days \ DaysOf(rid)) \cup reviewed
            /\ entries' = newEntries
            /\ resp' = Success("review", 200, rid, dec)
            /\ UNCHANGED <<timesheets, timesheet_entry, inflight>>

\* a list of deletable statuses that lets accepted requests through
DeletableStatuses_WithAccepted == {PENDING, REFUSED, ACCEPTED}

\* the statuses delete_absence_request accepts
DeletableStatuses == {PENDING, REFUSED}

\* DELETE /api/absence-requests/<id>
DeleteAbsenceRequest(rid) ==
    /\ rid \in DOMAIN requests
    /\ IF requests[rid].status \notin DeletableStatuses
       THEN Unchanged(Response("delete", 400, "status", 0))
       ELSE LET c == requests[rid].consultant
                months == {MonthOf(d.date) : d \in DaysOf(rid)}
                newEntries == SetMonthsPending({e \in entries : e.rid # rid}, c, months)
            IN
            /\ requests' = [r \in DOMAIN requests \ {rid} |-> requests[r]]
            /\ days' = days \ DaysOf(rid)
            /\ entries' = newEntries
            /\ resp' = Success("delete", 200, rid, <<>>)
            /\ UNCHANGED <<timesheets, timesheet_entry, inflight>>

\* ------------------------------------------------------ monthly timesheets
\* if ... number_of_hours <= 0 or number_of_hours > 24
ValidHours(h) == h > 0 /\ h <= DailyCeilingHours

\* total_hours_day > 24: the running total of the date of activity i, once
\* activity i is added
DayTotalExceeded(acts, i) ==
    SumHours({[i |-> j, hours |-> acts[j].hours] :
              j \in {k \in 1..i : acts[k].date = acts[i].date}}) > DailyCeilingHours

\* the category-specific checks of one activity
ActivityFieldsValid(c, a) ==
    CASE a.type = PROJECT -> a.mission # 0 /\ AssignmentConsultant(a.mission) = c
      [] a.type = INTERNAL -> TRUE
      [] a.type = ABSENCE -> /\ a.rid \in DOMAIN requests
                             /\ requests[a.rid].consultant = c
                             /\ (a.mission # 0 => AssignmentConsultant(a.mission) = c)

\* AbsenceRequest.query.get(absence_request_id) finds nothing
AbsenceRequestMissing(a) ==
    a.type = ABSENCE /\ a.rid # 0 /\ a.rid \notin DOMAIN requests

\* a lookup of the existing timesheet among those of the other consultants
TimesheetExists_OtherConsultant(c, month) ==
    \E t \in timesheets : t.consultant # c /\ t.month = month

\* MonthlyTimesheet.query.filter_by(consultant_id, month, year).first();
\* `month` stands for the (month, year) pair of the body
TimesheetExists(c, month) ==
    \E t \in timesheets : t.consultant = c /\ t.month = month

NewTimesheetId == MaxOf({t.id : t \in timesheets}) + 1

\* the rows create_timesheet adds for the activity list, ids in list order
TimesheetEntries(tid, c, st, acts) ==
    LET base == MaxOf({e.id : e \in entries})
    IN {[id |-> base + i, ts |-> tid, consultant |-> c, date |-> acts[i].date,
         activity |-> acts[i].type, hours |-> acts[i].hours, status |-> st,
         rid |-> IF acts[i].type = ABSENCE THEN acts[i].rid ELSE 0,
         mission |-> acts[i].mission] : i \in 1..Len(acts)}

\* POST /api/timesheets
\* acts: the activities of work_dates, each with its date, in body order.
\* The MonthlyTimesheet is added and flushed before the activities are
\* validated; an activity that fails validation returns without a commit,
\* after the rows of the activities before it were added to the session.
CreateTimesheet(c, month, st, acts) ==
    LET badHours(i) == ~ValidHours(acts[i].hours) \/ DayTotalExceeded(acts, i)
        bad == {i \in 1..Len(acts) : badHours(i) \/ ~ActivityFieldsValid(c, acts[i])}
        first == CHOOSE i \in bad : \A j \in bad : i <= j
        tid == NewTimesheetId
        newEntries == entries \cup TimesheetEntries(tid, c, st, acts)
        newTimesheets == timesheets \cup
                {[id |-> tid, consultant |-> c, month |-> month, status |-> st]}
    IN
    IF TimesheetExists(c, month)
    THEN Unchanged(Response("create_timesheet", 400, "exists", 0))
    ELSE IF ~UniqueMonthlyTimesheet(newTimesheets)
    THEN Unchanged(Response("create_timesheet", 500, "failed", 0))
    ELSE IF bad # {}
    THEN Failed(IF badHours(first)
                THEN Response("create_timesheet", 400, "hours", 0)
                ELSE IF AbsenceRequestMissing(acts[first])
                THEN Response("create_timesheet", 404, "not_found", 0)
                ELSE Response("create_timesheet", 400, "fields", 0),
                <<requests, days, newTimesheets,
                  entries \cup TimesheetEntries(tid, c, st, SubSeq(acts, 1, first - 1)),
                  timesheet_entry>>)
    ELSE IF ~UniqueDailyEntry(newEntries)
    THEN Unchanged(Response("create_timesheet", 500, "failed", 0))
    ELSE /\ IdsInRange(newEntries)
         /\ timesheets' = newTimesheets
         /\ entries' = newEntries
         /\ resp' = Success("create_timesheet", 201, 0, <<>>)
         /\ UNCHANGED <<requests, days, timesheet_entry, inflight>>

\* a cascade that reaches the entries of every timesheet
EntriesAfterStatus_All(tid, st) ==
    {[e EXCEPT !.status = st] : e \in entries}

\* DailyTimesheetEntry.query.filter_by(monthly_timesheet_id=...).update(...)
EntriesAfterStatus(tid, st) ==
    {IF e.ts = tid THEN [e EXCEPT !.status = st] ELSE e : e \in entries}

\* PUT /api/timesheets/status
UpdateTimesheetStatus(tid, st) ==
    IF st \notin TimesheetStatus
    THEN Unchanged(Response("timesheet_status", 400, "status", 0))
    ELSE IF ~\E t \in timesheets : t.id = tid
    THEN Unchanged(Response("timesheet_status", 404, "not_found", 0))
    ELSE /\ timesheets' = {IF t.id = tid THEN [t EXCEPT !.status = st] ELSE t :
                           t \in timesheets}
         /\ entries' = EntriesAfterStatus(tid, st)
         /\ resp' = Success("timesheet_status", 200, 0, <<>>)
         /\ UNCHANGED <<requests, days, timesheet_entry, inflight>>

\* DELETE /api/timesheets/<id>
DeleteTimesheet(tid) ==
    IF ~\E t \in timesheets : t.id = tid
    THEN Unchanged(Response("delete_timesheet", 404, "not_found", 0))
    ELSE /\ timesheets' = {t \in timesheets : t.id # tid}
         /\ entries' = {e \in entries : e.ts # tid}
         /\ resp' = Success("delete_timesheet", 200, 0, <<>>)
         /\ UNCHANGED <<requests, days, timesheet_entry, inflight>>

\* ------------------------------------ the single-file application (app.py)
\* time_fraction <= 0 or time_fraction > 1
BadTimeFraction(f) == f <= 0 \/ f > HoursPerDay

\* a limit that refuses the addition that fills the day
DailyFractionExceeded_Full(c, date, f) ==
    SumHours({e \in timesheet_entry : e.consultant = c /\ e.date = date}) + f >= HoursPerDay

\* current_total + time_fraction > 1.0001
DailyFractionExceeded(c, date, f) ==
    SumHours({e \in timesheet_entry : e.consultant = c /\ e.date = date}) + f > HoursPerDay

\* POST /api/timesheet-entries
CreateTimesheetEntry(c, date, f) ==
    IF BadTimeFraction(f)
    THEN Unchanged(Response("create_entry", 400, "fraction", 0))
    ELSE IF DailyFractionExceeded(c, date, f)
    THEN Unchanged(Response("create_entry", 400, "daily_limit", 0))
    ELSE /\ timesheet_entry' = timesheet_entry \cup
                {[id |-> MaxOf({e.id : e \in timesheet_entry}) + 1,
                  consultant |-> c, date |-> date, hours |-> f]}
         /\ resp' = Success("create_entry", 201, 0, <<>>)
         /\ UNCHANGED <<requests, days, timesheets, entries, inflight>>

\* ------------------------------------------------------- specifications
\* the workers that serve requests side by side
Workers == {1, 2}
Idle == [c |-> 0, type |-> "", dl |-> <<>>, st |-> ""]

Init ==
    /\ requests = <<>>
    /\ days = {}
    /\ timesheets = {}
    /\ entries = {}
    /\ timesheet_entry = {}
    /\ resp = Response("", 0, "", 0)
    /\ inflight = [w \in Workers |-> Idle]

SeqsUpTo(S, n) == UNION {[1..k -> S] : k \in 0..n}

\* request bodies: day lists in date order (a date may repeat)
DayListsOf(H) ==
    {dl \in SeqsUpTo([date : Dates, hours : H], MaxDayList) :
        /\ Len(dl) > 0
        /\ \A i \in 1..(Len(dl) - 1) : dl[i].date <= dl[i + 1].date}
TooLong == HoursPerDay + HalfDay
FullDayLists == DayListsOf({HoursPerDay}) \cup {<<[date |-> 1, hours |-> TooLong]>>}
DecisionLists ==
    SeqsUpTo([day : Dates, status : {ACCEPTED, REFUSED}], MaxDayList)
        \cup {<<[day |-> 1, status |-> PENDING]>>}

\* The absence-request lifecycle on its own (no timesheet submitted), for
\* requests of the uncapped type.
NextAbs ==
    \/ \E c \in Consultants, dl \in FullDayLists, st \in {SAVED, PENDING} :
            CreateAbsenceRequest(c, CONGES_SANS_SOLDE, dl, st)
    \/ \E rid \in RequestIds, dl \in {<<>>} \cup FullDayLists,
          st \in {"", PARTIALLY_ACCEPTED}, hr \in BOOLEAN :
            UpdateAbsenceRequest(rid, "", dl, st, hr)
    \/ \E rid \in RequestIds, dec \in DecisionLists :
            ReviewAbsenceRequest(rid, dec)
    \/ \E rid \in RequestIds :
            DeleteAbsenceRequest(rid)

SpecAbs == Init /\ [][NextAbs]_vars

\* The annual limit: requests of the capped and of the uncapped type, HR
\* sending one decision for every day of the request it reviews.
NextCap ==
    \/ \E c \in Consultants, typ \in AbsenceRequestType, dl \in FullDayLists,
          st \in {SAVED, PENDING} :
            CreateAbsenceRequest(c, typ, dl, st)
    \/ \E rid \in RequestIds, typ \in {""} \cup AbsenceRequestType,
          dl \in {<<>>} \cup FullDayLists :
            UpdateAbsenceRequest(rid, typ, dl, "", TRUE)
    \/ \E rid \in RequestIds, dec \in DecisionLists :
            /\ \A d \in DaysOf(rid) :
                 Cardinality({i \in 1..Len(dec) : dec[i].day = d.date}) = 1
            /\ ReviewAbsenceRequest(rid, dec)
    \/ \E rid \in RequestIds :
            DeleteAbsenceRequest(rid)

SpecCap == Init /\ [][NextCap]_vars

\* Two Creates served side by side.  create_absence_request runs its
\* validations and its two queries first (CreateBegin), then adds the rows and
\* commits (CreateCommit); the rows of a worker are invisible to the queries
\* of the other one until its commit.
CreateBegin(w, c, typ, dl, st) ==
    /\ inflight[w] = Idle
    /\ NewRequestId + Cardinality({v \in Workers : inflight[v] # Idle}) <= MaxRequests
    /\ Len(dl) > 0
    /\ IF \E i \in 1..Len(dl) : HoursTooLong(dl[i].hours)
       THEN Unchanged(Response("create", 400, "hours", 0))
       ELSE IF \E i \in 1..Len(dl) :
                   ExistingAbsence(c, dl[i].date, CreateConflictStatuses, 0)
       THEN Unchanged(Response("create", 400, "conflict", 0))
       ELSE IF /\ typ # CONGES_SANS_SOLDE
               /\ LimitExceeded(ExistingHours(c, CreateCountedStatuses, 0), SumSeqHours(dl))
       THEN Unchanged(Response("create", 400, "limit",
                RemainingHours(ExistingHours(c, CreateCountedStatuses, 0))))
       ELSE /\ inflight' = [inflight EXCEPT ![w] =
                                [c |-> c, type |-> typ, dl |-> dl, st |-> st]]
            /\ UNCHANGED <<db, resp>>

\* db.session.add / flush / commit of the Create worker w is serving; a
\* failing commit is rolled back
CreateCommit(w) ==
    /\ inflight[w] # Idle
    /\ inflight' = [inflight EXCEPT ![w] = Idle]
    /\ LET b == inflight[w]
           rid == NewRequestId
       IN IF ~UniqueAbsenceDay(b.dl)
          THEN /\ resp' = Response("create", 500, "failed", 0)
               /\ UNCHANGED db
          ELSE /\ requests' = [r \in DOMAIN requests \cup {rid} |->
                      IF r = rid
                      THEN [consultant |-> b.c, type |-> b.type, status |-> b.st,
                            commentary |-> None, justification |-> None]
                      ELSE requests[r]]
               /\ days' = days \cup
                      {[rid |-> rid, date |-> b.dl[i].date, hours |-> b.dl[i].hours,
                        status |-> b.st] : i \in 1..Len(b.dl)}
               /\ resp' = Success("create", 201, rid, <<>>)
               /\ UNCHANGED <<timesheets, entries, timesheet_entry>>

NextRace ==
    \/ \E w \in Workers, c \in Consultants, typ \in AbsenceRequestType,
          dl \in DayListsOf({HoursPerDay}), st \in {SAVED, PENDING} :
            CreateBegin(w, c, typ, dl, st)
    \/ \E w \in Workers :
            CreateCommit(w)
    \/ \E rid \in RequestIds :
            DeleteAbsenceRequest(rid)

SpecRace == Init /\ [][NextRace]_vars

\* Requests created with their texts and read back.
Texts == {None, "a"}

NextRound ==
    \/ \E c \in Consultants, typ \in AbsenceRequestType, commentary \in Texts,
          justification \in Texts, dl \in DayListsOf({HalfDay, HoursPerDay}),
          st \in {SAVED, PENDING} :
            CreateAbsenceRequestBody(c, typ, commentary, justification, dl, st)
    \/ \E rid \in RequestIds :
            GetAbsenceRequest(rid)
    \/ \E rid \in RequestIds :
            DeleteAbsenceRequest(rid)

SpecRound == Init /\ [][NextRound]_vars

\* Timesheets and absence requests together.
Activity(date, type, hours, mission, rid) ==
    [date |-> date, type |-> type, hours |-> hours, mission |-> mission, rid |-> rid]

\* timesheet bodies of consultant c: the activities of work_dates
TimesheetBodies(c) ==
    {<<Activity(d, PROJECT, h, c, 0)>> : d \in Dates, h \in {HalfDay, HoursPerDay}}
    \cup {<<Activity(1, PROJECT, HoursPerDay, c, 0), Activity(2, INTERNAL, HoursPerDay, 0, 0)>>,
          <<Activity(1, PROJECT, HalfDay, c, 0), Activity(1, INTERNAL, HalfDay, 0, 0)>>,
          <<Activity(1, PROJECT, DailyCeilingHours + HoursPerDay, c, 0)>>,
          <<Activity(1, PROJECT, 2 * HoursPerDay, c, 0),
            Activity(1, INTERNAL, 2 * HoursPerDay, 0, 0)>>,
          <<Activity(1, PROJECT, HoursPerDay, 3 - c, 0)>>,
          <<Activity(2, ABSENCE, DailyCeilingHours, 0, 1)>>}

\* The monthly timesheets of two consultants over two months, without
\* absence requests.
TimesheetIds == 1..MaxTimesheetId
Months == {1, 2}
ProjectBodies(c) ==
    {<<>>} \cup {<<Activity(d, PROJECT, HoursPerDay, c, 0)>> : d \in Dates}

NextTs ==
    \/ \E c \in Consultants, month \in Months, st \in {TS_SAVED, TS_VALIDATED} :
         \E acts \in ProjectBodies(c) :
            /\ NewTimesheetId <= MaxTimesheetId
            /\ CreateTimesheet(c, month, st, acts)
    \/ \E tid \in TimesheetIds, st \in TimesheetStatus \cup {"submitted"} :
            UpdateTimesheetStatus(tid, st)
    \/ \E tid \in TimesheetIds :
            DeleteTimesheet(tid)

SpecTs == Init /\ [][NextTs]_vars

\* Rejected timesheets: the bodies of ProjectBodies, and bodies whose second
\* activity is refused after the first one was added: hours above the
\* ceiling, a per-date total above the ceiling, the mission of another
\* consultant, an absence request that does not exist.
RejectedBodies(c) ==
    {<<Activity(1, PROJECT, HoursPerDay, c, 0),
       Activity(2, PROJECT, DailyCeilingHours + HoursPerDay, c, 0)>>,
     <<Activity(1, PROJECT, 2 * HoursPerDay, c, 0),
       Activity(1, INTERNAL, 2 * HoursPerDay, 0, 0)>>,
     <<Activity(1, PROJECT, HoursPerDay, c, 0),
       Activity(2, PROJECT, HoursPerDay, 3 - c, 0)>>,
     <<Activity(1, PROJECT, HoursPerDay, c, 0),
       Activity(2, ABSENCE, HoursPerDay, 0, 1)>>}

NextReject ==
    \/ \E c \in Consultants, month \in Months, st \in {TS_SAVED, TS_VALIDATED} :
         \E acts \in ProjectBodies(c) \cup RejectedBodies(c) :
            /\ NewTimesheetId <= MaxTimesheetId
            /\ CreateTimesheet(c, month, st, acts)
    \/ \E tid \in TimesheetIds :
            DeleteTimesheet(tid)

SpecReject == Init /\ [][NextReject]_vars

\* The entries of the single-file application on their own.
Fractions == {0 - HalfDay, 0, HalfDay, HoursPerDay, TooLong}

NextEntry ==
    \E c \in Consultants, date \in Dates, f \in Fractions :
        CreateTimesheetEntry(c, date, f)

SpecEntry == Init /\ [][NextEntry]_vars

\* Absence requests whose days carry any amount of Fractions: negative,
\* zero, half a day, a full day, more than a day.
NextAmount ==
    \/ \E c \in Consultants, dl \in DayListsOf(Fractions), st \in {SAVED, PENDING} :
            CreateAbsenceRequest(c, CONGES_SANS_SOLDE, dl, st)
    \/ \E rid \in RequestIds, dl \in {l \in DayListsOf(Fractions) : Len(l) = 1} :
            UpdateAbsenceRequest(rid, "", dl, "", TRUE)
    \/ \E rid \in RequestIds :
            DeleteAbsenceRequest(rid)

SpecAmount == Init /\ [][NextAmount]_vars

\* Reconciliation: one consultant, a timesheet that is empty, holds a full
\* day of project work or an absence, and requests of one or two days.
RecBodies ==
    {<<>>,
     <<Activity(1, PROJECT, HoursPerDay, 1, 0)>>,
     <<Activity(2, PROJECT, HoursPerDay, 1, 0)>>,
     <<Activity(2, ABSENCE, HoursPerDay, 0, 1)>>}
RecDayLists ==
    {<<[date |-> 1, hours |-> HoursPerDay]>>,
     <<[date |-> 1, hours |-> HalfDay]>>,
     <<[date |-> 1, hours |-> HoursPerDay], [date |-> 2, hours |-> HoursPerDay]>>}
CompleteDecisionLists(rid) ==
    {dec \in DecisionLists :
        \A d \in DaysOf(rid) :
            Cardinality({i \in 1..Len(dec) : dec[i].day = d.date}) = 1}

NextRec ==
    \/ \E st \in {TS_SAVED, TS_VALIDATED}, acts \in RecBodies :
            CreateTimesheet(1, 1, st, acts)
    \/ \E tid \in 1..2 :
            DeleteTimesheet(tid)
    \/ \E dl \in RecDayLists :
            CreateAbsenceRequest(1, CONGES_SANS_SOLDE, dl, PENDING)
    \/ \E rid \in RequestIds, dl \in RecDayLists, st \in {"", REFUSED} :
            UpdateAbsenceRequest(rid, "", dl, st, TRUE)
    \/ \E rid \in RequestIds :
         \E dec \in CompleteDecisionLists(rid) :
            ReviewAbsenceRequest(rid, dec)
    \/ \E rid \in RequestIds :
            DeleteAbsenceRequest(rid)

SpecRec == Init /\ [][NextRec]_vars

\* Reconciliation over two months: one consultant, a timesheet for the
\* month of date 1 only, and requests of a day in that month and a day in a
\* later month for which no timesheet is filed.
LaterDate == NumDates + 1
MonthDayLists ==
    {<<[date |-> 1, hours |-> HoursPerDay]>>,
     <<[date |-> LaterDate, hours |-> HoursPerDay]>>,
     <<[date |-> 1, hours |-> HoursPerDay], [date |-> LaterDate, hours |-> HoursPerDay]>>}
MonthDecisionLists(rid) ==
    {dec \in SeqsUpTo([day : {1, LaterDate}, status : {ACCEPTED, REFUSED}], MaxDayList) :
        \A d \in DaysOf(rid) :
            Cardinality({i \in 1..Len(dec) : dec[i].day = d.date}) = 1}

NextMonths ==
    \/ \E st \in {TS_SAVED, TS_VALIDATED}, d \in Dates :
            CreateTimesheet(1, 1, st, <<Activity(d, PROJECT, HoursPerDay, 1, 0)>>)
    \/ \E tid \in 1..2 :
            DeleteTimesheet(tid)
    \/ \E dl \in MonthDayLists :
            CreateAbsenceRequest(1, CONGES_SANS_SOLDE, dl, PENDING)
    \/ \E rid \in RequestIds, dl \in MonthDayLists, st \in {"", REFUSED} :
            UpdateAbsenceRequest(rid, "", dl, st, TRUE)
    \/ \E rid \in RequestIds :
         \E dec \in MonthDecisionLists(rid) :
            ReviewAbsenceRequest(rid, dec)
    \/ \E rid \in RequestIds :
            DeleteAbsenceRequest(rid)

SpecMonths == Init /\ [][NextMonths]_vars

\* The half-day branch on its own: the non-absence entries of one date of
\* one consultant, in creation order, are given (a schema without the
\* unique constraint on the date), and a half day of request 1 is reconciled.
MaxDaily == 3
QuarterDay == HalfDay \div 2
DailyEntryLists ==
    {l \in SeqsUpTo({QuarterDay, HalfDay, HalfDay + QuarterDay, HoursPerDay}, MaxDaily) :
        Len(l) > 0}
DailyEntries(l, st) ==
    {[id |-> i, ts |-> 1, consultant |-> 1, date |-> 1, activity |-> PROJECT,
      hours |-> l[i], status |-> st, rid |-> 0, mission |-> 1] : i \in 1..Len(l)}

InitHalf ==
    /\ requests = <<[consultant |-> 1, type |-> CONGES_SANS_SOLDE, status |-> REFUSED,
                     commentary |-> None, justification |-> None]>>
    /\ days = {[rid |-> 1, date |-> 1, hours |-> HalfDay, status |-> REFUSED]}
    /\ \E st \in {TS_SAVED, TS_VALIDATED} :
         /\ timesheets = {[id |-> 1, consultant |-> 1, month |-> 1, status |-> st]}
         /\ entries \in {DailyEntries(l, st) : l \in DailyEntryLists}
    /\ timesheet_entry = {}
    /\ resp = Response("", 0, "", 0)
    /\ inflight = [w \in Workers |-> Idle]

\* the reconciliation of the half day, as the loops of Update and Review run it
ReconcileHalfDay ==
    /\ resp.op = ""
    /\ entries' = ReconcileDay(entries, 1, 1, 1, HalfDay, FALSE)
    /\ resp' = Success("reconcile", 200, 1, <<>>)
    /\ UNCHANGED <<requests, days, timesheets, timesheet_entry, inflight>>

SpecHalf == InitHalf /\ [][ReconcileHalfDay]_vars

OneDayLists ==
    {<<[date |-> 1, hours |-> HalfDay]>>, <<[date |-> 1, hours |-> HoursPerDay]>>,
     <<[date |-> 2, hours |-> HoursPerDay]>>}

\* one consultant files timesheets and absence requests
Next ==
    \/ \E st \in {TS_SAVED, TS_VALIDATED}, acts \in TimesheetBodies(1) :
            CreateTimesheet(1, 1, st, acts)
    \/ \E tid \in 1..2, st \in {TS_VALIDATED, "submitted"} :
            UpdateTimesheetStatus(tid, st)
    \/ \E tid \in 1..2 :
            DeleteTimesheet(tid)
    \/ \E f \in {0, HalfDay, HoursPerDay, TooLong} :
            CreateTimesheetEntry(1, 1, f)
    \/ \E dl \in OneDayLists :
            CreateAbsenceRequest(1, CONGES_SANS_SOLDE, dl, PENDING)
    \/ \E rid \in RequestIds, dl \in OneDayLists :
            UpdateAbsenceRequest(rid, "", dl, "", TRUE)
    \/ \E rid \in RequestIds, dec \in DecisionLists :
            /\ \A d \in DaysOf(rid) :
                 Cardinality({i \in 1..Len(dec) : dec[i].day = d.date}) = 1
            /\ ReviewAbsenceRequest(rid, dec)
    \/ \E rid \in RequestIds :
            DeleteAbsenceRequest(rid)

Spec == Init /\ [][Next]_vars

\* =================================================================== claims
ReviewOk == resp.op = "review" /\ resp.code = 200
CreateOk == resp.op = "create" /\ resp.code = 201

\* C1: for every consultant and date the amounts of the DailyTimesheetEntry
\* rows of that consultant and date add up to at most the daily ceiling (24
\* hours), and the amounts of the TimesheetEntry rows of the single-file
\* application to at most its ceiling of one day.
C1_DailyCeiling ==
    \A c \in Consultants, date \in Dates :
        /\ SumHours({e \in entries : e.consultant = c /\ e.date = date})
                <= DailyCeilingHours
        /\ SumHours({e \in timesheet_entry : e.consultant = c /\ e.date = date})
                <= HoursPerDay

\* C1 witness: reconciliation has put an absence entry beside the entries of a
\* timesheet, and two half days fill a date of the single-file application
C1_Witness ==
    /\ \E e \in entries : e.ts = 0 /\ e.activity = ABSENCE
    /\ \E e \in entries : e.ts # 0 /\ e.activity # ABSENCE
    /\ Cardinality(timesheet_entry) = 2

\* C2: for every consultant and date, at most one absence day that is not
\* refused exists on that date across the consultant's non-refused requests.
C2_OneClaimPerDate ==
    \A c \in Consultants, date \in Dates :
        Cardinality({d \in days : /\ ConsultantOf(d.rid) = c
                                  /\ d.date = date
                                  /\ requests[d.rid].status # REFUSED
                                  /\ d.status # REFUSED}) <= 1

\* C3: a Create that includes a date on which the consultant already has a
\* pending or accepted absence day is rejected and stores no request and no
\* day: whatever body explains a successful Create step, none of its dates had
\* such a day before the step, and a Create that fails leaves the rows alone.
C3_ConflictingCreateRejected ==
    [][(resp'.op = "create") =>
        /\ (resp'.code = 201 =>
              \A c \in Consultants, typ \in AbsenceRequestType, st \in AbsenceRequestStatus,
                 dl \in SeqsUpTo([date : Dates, hours : {HalfDay, HoursPerDay}], MaxDayList) :
                  CreateAbsenceRequest(c, typ, dl, st) =>
                      ~\E i \in 1..Len(dl), d \in days :
                          /\ requests[d.rid].consultant = c
                          /\ d.date = dl[i].date
                          /\ d.status \in {PENDING, ACCEPTED})
        /\ (resp'.code # 201 => UNCHANGED db)
      ]_vars

\* C3 witness: a Create was rejected for a date held by a pending or accepted day
C3_Witness ==
    /\ resp.op = "create" /\ resp.err = "conflict"
    /\ \E d \in days : d.status \in {PENDING, ACCEPTED}
    /\ ~\E d \in days : d.status = SAVED

\* the hours of the consultant's days of capped types with one of `statuses`,
\* dated in `year`, outside request exceptRid
CappedHours(c, statuses, year, exceptRid) ==
    SumHours({d \in days :
        /\ requests[d.rid].consultant = c
        /\ requests[d.rid].type = CP
        /\ d.status \in statuses
        /\ YearOf(d.date) = year
        /\ d.rid # exceptRid})

\* C4: for every consultant and year, the accepted and pending days of capped
\* types dated in that year add up to at most the annual cap.
C4_AnnualCap ==
    \A c \in Consultants, year \in {YearOf(d) : d \in Dates} :
        CappedHours(c, {ACCEPTED, PENDING}, year, 0) <= AnnualCapHours

\* C5: a Create of a capped type whose requested total plus the consultant's
\* counted total of the year exceeds the cap is rejected and stores nothing;
\* when its hours are valid and none of its dates is taken, the error is the
\* one of the annual limit, and that error reports max(0, cap - counted total).
C5_CapRejection ==
    \A c \in Consultants, dl \in FullDayLists, st \in {SAVED, PENDING} :
        LET existing == CappedHours(c, {ACCEPTED, PENDING, SAVED}, CurrentYear, 0)
            remaining == IF existing >= AnnualCapHours THEN 0
                         ELSE AnnualCapHours - existing
            clean == \A i \in 1..Len(dl) :
                        /\ dl[i].hours <= HoursPerDay
                        /\ ~\E d \in days : /\ requests[d.rid].consultant = c
                                            /\ d.date = dl[i].date
                                            /\ d.status \in {PENDING, ACCEPTED, SAVED}
        IN existing + SumSeqHours(dl) > AnnualCapHours =>
            ~ENABLED (/\ CreateAbsenceRequest(c, CP, dl, st)
                      /\ ~(/\ resp'.code = 400
                           /\ UNCHANGED db
                           /\ (clean => resp'.err = "limit")
                           /\ (resp'.err = "limit" => resp'.val = remaining)))

\* C5 witness: a consultant without any day was refused a Create over the cap
\* and told that the whole allowance remains
C5_Witness ==
    /\ resp.op = "create" /\ resp.err = "limit"
    /\ resp.val = AnnualCapHours
    /\ days = {}

\* C6: no Create and no Update whose type is unpaid leave is rejected for the
\* annual limit, and a Create or Update of a capped type is not rejected for
\* the annual limit when the counted days of capped types alone, with the
\* requested ones, stay within the cap: days of unpaid leave do not count.
C6_CapWaivedForUnpaid ==
    /\ \A c \in Consultants, dl \in FullDayLists, st \in {SAVED, PENDING} :
        /\ ~ENABLED (CreateAbsenceRequest(c, CONGES_SANS_SOLDE, dl, st)
                        /\ resp'.err = "limit")
        /\ CappedHours(c, {ACCEPTED, PENDING, SAVED}, CurrentYear, 0)
                + SumSeqHours(dl) <= AnnualCapHours
           => ~ENABLED (CreateAbsenceRequest(c, CP, dl, st) /\ resp'.err = "limit")
    /\ \A rid \in DOMAIN requests, typ \in {""} \cup AbsenceRequestType,
          dl \in {<<>>} \cup FullDayLists :
        LET newType == IF typ = "" THEN requests[rid].type ELSE typ
        IN (\/ newType = CONGES_SANS_SOLDE
            \/ CappedHours(requests[rid].consultant, {ACCEPTED, PENDING}, CurrentYear, rid)
                    + SumSeqHours(dl) <= AnnualCapHours)
           => ~ENABLED (UpdateAbsenceRequest(rid, typ, dl, "", TRUE)
                            /\ resp'.err = "limit")

\* C6 witness: a request of a capped type was created for a consultant whose
\* days, those of unpaid leave included, then exceed the cap
C6_Witness ==
    /\ CreateOk
    /\ requests[resp.rid].type = CP
    /\ \E d \in days : /\ requests[d.rid].consultant = requests[resp.rid].consultant
                       /\ requests[d.rid].type = CONGES_SANS_SOLDE
                       /\ d.status \in {PENDING, SAVED}
    /\ SumHours({d \in days : requests[d.rid].consultant = requests[resp.rid].consultant})
            > AnnualCapHours

\* C7: after every successful Review the request is accepted iff all its days
\* are accepted, refused iff all its days are refused, and partially accepted
\* in every other case.
C7_StatusDerivedFromDays ==
    ReviewOk =>
        LET D == DaysOf(resp.rid)
            allAccepted == \A d \in D : d.status = ACCEPTED
            allRefused == \A d \in D : d.status = REFUSED
            status == requests[resp.rid].status
        IN /\ (status = ACCEPTED) <=> allAccepted
           /\ (status = REFUSED) <=> allRefused
           /\ (status = PARTIALLY_ACCEPTED) <=> (~allAccepted /\ ~allRefused)

\* a decision list that gives exactly one decision, accepted or refused, to
\* every day in D and to no other day
CompleteDecisions(D, dec) ==
    /\ \A d \in D : Cardinality({i \in 1..Len(dec) : dec[i].day = d.date}) = 1
    /\ \A i \in 1..Len(dec) :
        /\ \E d \in D : d.date = dec[i].day
        /\ dec[i].status \in {ACCEPTED, REFUSED}

\* C8: a Review succeeds only if its decision list gives exactly one decision
\* to every day of the request, and a Review that does not succeed changes no
\* day status.
C8_ReviewNeedsCompleteDecisions ==
    [][(resp'.op = "review") =>
        /\ (resp'.code = 200 => CompleteDecisions(DaysOf(resp'.rid), resp'.arg))
        /\ (resp'.code # 200 => days' = days)
      ]_vars

C10_ReviewIdempotent ==
    [][(/\ ReviewOk
        /\ resp'.op = "review" /\ resp'.code = 200
        /\ resp'.rid = resp.rid /\ resp'.arg = resp.arg
        /\ CompleteDecisions(DaysOf(resp.rid), resp.arg)) =>
            /\ requests'[resp.rid].status = requests[resp.rid].status
            /\ {d \in days' : d.rid = resp.rid} = DaysOf(resp.rid)
      ]_vars

\* C10 witness: a complete Review has produced a mixed (partially accepted) result
C10_Witness ==
    /\ ReviewOk
    /\ CompleteDecisions(DaysOf(resp.rid), resp.arg)
    /\ requests[resp.rid].status = PARTIALLY_ACCEPTED

C12_DeleteCascadesAndResets ==
    [][(resp'.op = "delete" /\ resp'.code = 200) =>
        LET rid == resp'.rid
            c == requests[rid].consultant
            months == {MonthOf(d.date) : d \in DaysOf(rid)}
        IN /\ ~\E d \in days' : d.rid = rid
           /\ ~\E e \in entries' : e.rid = rid
           /\ \A e \in entries' :
                (e.consultant = c /\ MonthOf(e.date) \in months) => e.status = TS_PENDING
           /\ \A t \in timesheets' :
                (t.consultant = c /\ t.month \in months) => t.status = TS_PENDING
      ]_vars

\* C13: an Update of a request whose status is not pending, refused or
\* accepted is rejected, and so is an Update of an accepted request that does
\* not carry the HR reviewer identity; an Update that is rejected changes no
\* row.
C13_UpdateGuards ==
    \A rid \in DOMAIN requests, dl \in {<<>>, <<[date |-> 1, hours |-> HoursPerDay]>>},
       st \in {"", ACCEPTED}, hr \in BOOLEAN :
        /\ (\/ requests[rid].status \notin {PENDING, REFUSED, ACCEPTED}
            \/ (requests[rid].status = ACCEPTED /\ ~hr))
           => ~ENABLED (/\ UpdateAbsenceRequest(rid, "", dl, st, hr)
                        /\ ~(resp'.code = 400 /\ UNCHANGED db))
        /\ ~ENABLED (/\ UpdateAbsenceRequest(rid, "", dl, st, hr)
                     /\ resp'.code # 200
                     /\ ~UNCHANGED db)

\* C13 witness: the Update of an accepted request was rejected for the
\* missing reviewer identity
C13_Witness ==
    /\ resp.op = "update" /\ resp.err = "reviewed_by"
    /\ \E rid \in DOMAIN requests : requests[rid].status = ACCEPTED

\* C14: after a successful Update that carries a replacement day list and no
\* status, the day rows of the request are exactly the submitted days, each
\* pending, none of the old rows is left, and the request is pending: it is
\* to be reviewed again.
C14_UpdateReplacesDays ==
    \A rid \in DOMAIN requests, typ \in {""} \cup AbsenceRequestType,
       dl \in DayListsOf({HalfDay, HoursPerDay}) :
        ~ENABLED (/\ UpdateAbsenceRequest(rid, typ, dl, "", TRUE)
                  /\ resp'.code = 200
                  /\ ~(/\ {[date |-> d.date, hours |-> d.hours] :
                              d \in {x \in days' : x.rid = rid}}
                            = {[date |-> dl[i].date, hours |-> dl[i].hours] :
                                  i \in 1..Len(dl)}
                       /\ Cardinality({x \in days' : x.rid = rid}) = Len(dl)
                       /\ \A x \in days' : x.rid = rid => x.status = PENDING
                       /\ requests'[rid].status = PENDING))

\* C14 witness: an Update has left an earlier reviewed request pending with
\* two pending days, beside a request that is still accepted
C14_Witness ==
    /\ resp.op = "update" /\ resp.code = 200
    /\ requests[resp.rid].status = PENDING
    /\ Cardinality(DaysOf(resp.rid)) = 2
    /\ \A d \in DaysOf(resp.rid) : d.status = PENDING
    /\ \E r \in DOMAIN requests : requests[r].status = ACCEPTED

\* C15: an Update with a replacement day list on a refused request is
\* rejected, with the days and the timesheet entries unchanged, whenever some
\* month touched by the old or the new days has a validated timesheet of the
\* consultant and the (date, amount) days of that month differ between old
\* and new.
C15_ValidatedMonthBlocksEdit ==
    \A rid \in DOMAIN requests, dl \in OneDayLists :
        LET c == requests[rid].consultant
            old == {[date |-> d.date, hours |-> d.hours] : d \in DaysOf(rid)}
            new == {[date |-> dl[i].date, hours |-> dl[i].hours] : i \in 1..Len(dl)}
            blocked == \E m \in {MonthOf(d.date) : d \in old \cup new} :
                /\ \E t \in timesheets :
                    t.consultant = c /\ t.month = m /\ t.status = TS_VALIDATED
                /\ {d \in old : MonthOf(d.date) = m} # {d \in new : MonthOf(d.date) = m}
        IN (requests[rid].status = REFUSED /\ blocked) =>
            ~ENABLED (/\ UpdateAbsenceRequest(rid, "", dl, "", TRUE)
                      /\ ~(resp'.code = 400 /\ days' = days /\ entries' = entries))

\* C16: the checks of Update leave the edited request out. An Update is not
\* rejected for a date conflict when no other request of the consultant holds
\* a pending or accepted day on a submitted date, whatever days the request
\* itself holds; and an Update to a capped type is not rejected for the annual
\* limit when the counted hours of the other requests plus the submitted
\* hours stay within the cap, whatever hours the request itself held.
C16_UpdateExcludesOwnDays ==
    \A rid \in DOMAIN requests, typ \in {""} \cup AbsenceRequestType,
       dl \in DayListsOf({HalfDay, HoursPerDay}) :
        LET c == requests[rid].consultant
            others == {d \in days : d.rid # rid /\ requests[d.rid].consultant = c}
            free == \A i \in 1..Len(dl) :
                        ~\E d \in others : /\ d.date = dl[i].date
                                            /\ d.status \in {PENDING, ACCEPTED}
            within == CappedHours(c, {ACCEPTED, PENDING}, CurrentYear, rid)
                        + SumSeqHours(dl) <= AnnualCapHours
        IN /\ free => ~ENABLED (/\ UpdateAbsenceRequest(rid, typ, dl, "", TRUE)
                                /\ resp'.err = "conflict")
           /\ within => ~ENABLED (/\ UpdateAbsenceRequest(rid, typ, dl, "", TRUE)
                                  /\ resp'.err = "limit")

\* C16 witness: an Update succeeded on the only request of a consultant, of a
\* capped type, whose own pending days fill the whole annual cap
C16_Witness ==
    /\ resp.op = "update" /\ resp.code = 200
    /\ requests[resp.rid].type = CP
    /\ SumHours(DaysOf(resp.rid)) = AnnualCapHours
    /\ \A d \in DaysOf(resp.rid) : d.status = PENDING /\ YearOf(d.date) = CurrentYear
    /\ \A r \in DOMAIN requests :
          requests[r].consultant = requests[resp.rid].consultant => r = resp.rid

C18_CreateReconcilesHalfDay ==
    \A c \in Consultants, date \in Dates, typ \in AbsenceRequestType,
       st \in {SAVED, PENDING} :
        LET onDate == {e \in entries : e.consultant = c /\ e.date = date}
            single == /\ Cardinality(onDate) = 1
                      /\ \A e \in onDate : e.activity # ABSENCE /\ e.hours = HoursPerDay
            hasSheet == \E t \in timesheets :
                            t.consultant = c /\ t.month = MonthOf(date)
        IN (single /\ hasSheet) =>
            ~ENABLED (/\ CreateAbsenceRequest(c, typ, <<[date |-> date, hours |-> HalfDay]>>, st)
                      /\ resp'.code = 201
                      /\ ~(/\ \A e \in onDate :
                                \E f \in entries' : f.id = e.id /\ f.hours = HalfDay
                           /\ Cardinality({f \in entries' :
                                  /\ f.consultant = c /\ f.date = date
                                  /\ f.activity = ABSENCE /\ f.hours = HalfDay
                                  /\ f.rid = resp'.rid}) = 1
                           /\ \A t \in timesheets' :
                                (t.consultant = c /\ t.month = MonthOf(date))
                                    => t.status = TS_PENDING))

\* C19: a Create of a monthly timesheet for a consultant and period that
\* already has a MonthlyTimesheet is rejected as existing and stores nothing,
\* and no state holds two MonthlyTimesheet rows of one consultant and period.
C19_OneTimesheetPerPeriod ==
    /\ \A t1, t2 \in timesheets :
          (t1.consultant = t2.consultant /\ t1.month = t2.month) => t1.id = t2.id
    /\ \A c \in Consultants, month \in Months, st \in {TS_SAVED, TS_VALIDATED} :
         \A acts \in ProjectBodies(c) :
          (\E t \in timesheets : t.consultant = c /\ t.month = month) =>
            ~ENABLED (/\ CreateTimesheet(c, month, st, acts)
                      /\ ~(/\ resp'.code = 400 /\ resp'.err = "exists"
                           /\ UNCHANGED db))

\* C19 witness: a second Create for the period of an existing timesheet was
\* rejected, beside the timesheet of the same month of the other consultant
C19_Witness ==
    /\ resp.op = "create_timesheet" /\ resp.code = 400 /\ resp.err = "exists"
    /\ \E t1, t2 \in timesheets :
          t1.month = t2.month /\ t1.consultant # t2.consultant

\* C20: after a successful UpdateStatus(timesheet, s) the MonthlyTimesheet
\* and every entry it owns have status s, the other timesheets and the
\* entries they own are as before and no entry is added or removed; an
\* UpdateStatus with an unknown status or an unknown timesheet id is an
\* error that changes nothing.
C20_StatusCascade ==
    \A tid \in TimesheetIds, st \in TimesheetStatus \cup {"submitted"} :
        /\ ~ENABLED (/\ UpdateTimesheetStatus(tid, st)
                     /\ resp'.code = 200
                     /\ ~(/\ \A t \in timesheets' : t.id = tid => t.status = st
                          /\ \A e \in entries' : e.ts = tid => e.status = st
                          /\ {t \in timesheets' : t.id # tid}
                                = {t \in timesheets : t.id # tid}
                          /\ {e \in entries' : e.ts # tid}
                                = {e \in entries : e.ts # tid}
                          /\ {t.id : t \in timesheets'} = {t.id : t \in timesheets}
                          /\ {<<e.id, e.ts>> : e \in entries'}
                                = {<<e.id, e.ts>> : e \in entries}))
        /\ (st \notin TimesheetStatus \/ ~\E t \in timesheets : t.id = tid) =>
            ~ENABLED (/\ UpdateTimesheetStatus(tid, st)
                      /\ ~(resp'.code \in {400, 404} /\ UNCHANGED db))

\* C20 witness: a status update has left a refused timesheet whose entry is
\* refused, beside a saved timesheet whose entry is still saved
C20_Witness ==
    /\ resp.op = "timesheet_status" /\ resp.code = 200
    /\ \E t1, t2 \in timesheets :
          /\ t1.status = TS_REFUSED /\ t2.status = TS_SAVED
          /\ \E e \in entries : e.ts = t1.id /\ e.status = TS_REFUSED
          /\ \E e \in entries : e.ts = t2.id /\ e.status = TS_SAVED

\* C21: right after a successful Create, whatever status the body carries,
\* the new request and each of its days are pending or saved: none is
\* accepted, refused or partially accepted.
C21_CreatedPendingOrSaved ==
    \A c \in Consultants, typ \in AbsenceRequestType, st \in AbsenceRequestStatus,
       dl \in DayListsOf({HalfDay, HoursPerDay}) :
        ~ENABLED (/\ CreateAbsenceRequest(c, typ, dl, st)
                  /\ resp'.code = 201
                  /\ ~(/\ requests'[resp'.rid].status \in {PENDING, SAVED}
                       /\ \A d \in days' :
                            d.rid = resp'.rid => d.status \in {PENDING, SAVED}))

C23_EntryWithinCapacity ==
    \A c \in Consultants, date \in Dates, f \in Fractions :
        LET total == SumHours({e \in timesheet_entry :
                                 e.consultant = c /\ e.date = date})
            fits == f > 0 /\ f <= HoursPerDay /\ total + f <= HoursPerDay
        IN /\ fits => ~ENABLED (/\ CreateTimesheetEntry(c, date, f)
                                /\ ~(/\ resp'.code = 201
                                     /\ Cardinality(timesheet_entry')
                                            = Cardinality(timesheet_entry) + 1
                                     /\ \A e \in timesheet_entry' \ timesheet_entry :
                                          e.consultant = c /\ e.date = date /\ e.hours = f
                                     /\ timesheet_entry \subseteq timesheet_entry'))
           /\ ~fits => ~ENABLED (/\ CreateTimesheetEntry(c, date, f)
                                 /\ ~(resp'.code = 400 /\ UNCHANGED db))

\* C23 witness: a half day was added to a date that held a half day, which
\* fills the date, and is the last entry stored
C23_Witness ==
    /\ resp.op = "create_entry" /\ resp.code = 201
    /\ \E e1, e2 \in timesheet_entry :
          /\ e1.id < e2.id /\ e2.id = Cardinality(timesheet_entry)
          /\ e1.consultant = e2.consultant /\ e1.date = e2.date
          /\ e1.hours = HalfDay /\ e2.hours = HalfDay

\* C24: when a successful Update reconciles a full day of its list, or a
\* successful Review that takes a refused request to accepted or partially
\* accepted reconciles an accepted full day, on a date that held non-absence
\* entries of the consultant and in a month that has a MonthlyTimesheet,
\* afterwards no non-absence entry is left on that date and exactly one
\* absence entry of a full day, tied to the request, exists for it.
C24_FullDayReplacesEntries ==
    \A rid \in DOMAIN requests :
        LET c == requests[rid].consultant
            busy(D) == /\ \E e \in entries : /\ e.consultant = c /\ e.date = D
                                              /\ e.activity # ABSENCE
                       /\ \E t \in timesheets :
                            t.consultant = c /\ t.month = MonthOf(D)
        IN /\ \A dl \in RecDayLists, st \in {"", REFUSED} :
                ~ENABLED (/\ UpdateAbsenceRequest(rid, "", dl, st, TRUE)
                          /\ resp'.code = 200
                          /\ \E i \in 1..Len(dl) :
                               /\ dl[i].hours = HoursPerDay
                               /\ busy(dl[i].date)
                               /\ ~(/\ ~\E e \in entries' :
                                          /\ e.consultant = c /\ e.date = dl[i].date
                                          /\ e.activity # ABSENCE
                                    /\ Cardinality({e \in entries' :
                                          /\ e.consultant = c /\ e.date = dl[i].date
                                          /\ e.activity = ABSENCE /\ e.rid = rid
                                          /\ e.hours = HoursPerDay}) = 1))
           /\ requests[rid].status = REFUSED =>
                \A dec \in CompleteDecisionLists(rid) :
                  ~ENABLED (/\ ReviewAbsenceRequest(rid, dec)
                            /\ resp'.code = 200
                            /\ requests'[rid].status \in {ACCEPTED, PARTIALLY_ACCEPTED}
                            /\ \E d \in days' :
                                 /\ d.rid = rid /\ d.status = ACCEPTED
                                 /\ d.hours = HoursPerDay
                                 /\ busy(d.date)
                                 /\ ~(/\ ~\E e \in entries' :
                                            /\ e.consultant = c /\ e.date = d.date
                                            /\ e.activity # ABSENCE
                                      /\ Cardinality({e \in entries' :
                                            /\ e.consultant = c /\ e.date = d.date
                                            /\ e.activity = ABSENCE /\ e.rid = rid
                                            /\ e.hours = HoursPerDay}) = 1))

C26_ReconcileIffTimesheet ==
    \A rid \in DOMAIN requests :
        LET c == requests[rid].consultant
            hasSheet(D) == \E t \in timesheets :
                               t.consultant = c /\ t.month = MonthOf(D)
            free(D) == ~\E e \in entries : e.consultant = c /\ e.date = D
        IN /\ \A dl \in RecDayLists, st \in {"", REFUSED} :
                ~ENABLED (/\ UpdateAbsenceRequest(rid, "", dl, st, TRUE)
                          /\ resp'.code = 200
                          /\ \/ /\ \A i \in 1..Len(dl) : ~hasSheet(dl[i].date)
                                /\ ~(entries' \subseteq entries)
                             \/ \E i \in 1..Len(dl) :
                                  /\ hasSheet(dl[i].date) /\ free(dl[i].date)
                                  /\ ~\E e \in entries' :
                                        /\ e.consultant = c /\ e.date = dl[i].date
                                        /\ e.activity = ABSENCE /\ e.rid = rid
                                        /\ e.hours = dl[i].hours)
           /\ requests[rid].status = REFUSED =>
                \A dec \in CompleteDecisionLists(rid) :
                  ~ENABLED (/\ ReviewAbsenceRequest(rid, dec)
                            /\ resp'.code = 200
                            /\ requests'[rid].status \in {ACCEPTED, PARTIALLY_ACCEPTED}
                            /\ \/ /\ \A d \in DaysOf(rid) : ~hasSheet(d.date)
                                  /\ entries' # entries
                               \/ \E d \in days' :
                                    /\ d.rid = rid /\ d.status = ACCEPTED
                                    /\ hasSheet(d.date) /\ free(d.date)
                                    /\ ~\E e \in entries' :
                                          /\ e.consultant = c /\ e.date = d.date
                                          /\ e.activity = ABSENCE /\ e.rid = rid
                                          /\ e.hours = d.hours)

C28_ReacceptedDaysMaterialized ==
    \A rid \in DOMAIN requests :
        requests[rid].status = REFUSED =>
            \A dec \in CompleteDecisionLists(rid) :
              ~ENABLED (/\ ReviewAbsenceRequest(rid, dec)
                        /\ resp'.code = 200
                        /\ requests'[rid].status \in {ACCEPTED, PARTIALLY_ACCEPTED}
                        /\ \E d \in days' :
                              /\ d.rid = rid /\ d.status = ACCEPTED
                              /\ \E t \in timesheets' :
                                    /\ t.consultant = requests[rid].consultant
                                    /\ t.month = MonthOf(d.date)
                              /\ ~\E e \in entries' :
                                    /\ e.activity = ABSENCE /\ e.rid = rid
                                    /\ e.consultant = requests[rid].consultant
                                    /\ e.date = d.date /\ e.hours = d.hours)

C31_SeveralEntriesPerDate ==
    /\ \A st \in {TS_SAVED, TS_VALIDATED} :
         \A acts \in TimesheetBodies(1) :
            (/\ ~TimesheetExists(1, 1)
             /\ \A e \in entries : e.consultant # 1
             /\ \A i \in 1..Len(acts) :
                    /\ ValidHours(acts[i].hours)
                    /\ ~DayTotalExceeded(acts, i)
                    /\ ActivityFieldsValid(1, acts[i]))
            => ~ENABLED (/\ CreateTimesheet(1, 1, st, acts)
                         /\ resp'.code # 201)
    /\ \A rid \in DOMAIN requests :
         (/\ requests[rid].status = PENDING
          /\ ~ExistingAbsence(ConsultantOf(rid), 1, UpdateConflictStatuses, rid)
          /\ \E e \in entries :
                /\ e.consultant = ConsultantOf(rid) /\ e.date = 1
                /\ e.activity # ABSENCE /\ e.hours = HoursPerDay
                /\ e.status # TS_VALIDATED
          /\ Cardinality({e \in entries : e.consultant = ConsultantOf(rid)}) = 1)
         => ~ENABLED (/\ UpdateAbsenceRequest(rid, "", <<[date |-> 1, hours |-> HalfDay]>>, "", TRUE)
                      /\ ~(/\ resp'.code = 200
                           /\ \E e, f \in entries' :
                                 /\ e.date = 1 /\ f.date = 1
                                 /\ e.activity = ABSENCE /\ f.activity # ABSENCE))

\* C32: duplicate-day races are caught: whatever the order in which the
\* checks and the commits of two Creates of one consultant run, at most one
\* of them commits a day for a date, so no consultant has two day rows on one
\* date.
C32_DuplicateDayRaceCaught ==
    \A c \in Consultants, date \in Dates :
        Cardinality({d \in days : ConsultantOf(d.rid) = c /\ d.date = date}) <= 1

\* C33: every stored absence day carries an allowed amount: above zero and
\* at most one day (the ceiling of an absence day).
C33_AllowedAmounts ==
    \A d \in days : d.hours > 0 /\ d.hours <= HoursPerDay

\* C34: the status of a request agrees with the statuses of its days: an
\* accepted request has only accepted days, a refused request only refused
\* days, a pending request only pending days.
C34_RequestStatusAgreesWithDays ==
    \A rid \in DOMAIN requests :
        requests[rid].status \in {ACCEPTED, REFUSED, PENDING} =>
            \A d \in DaysOf(rid) : d.status = requests[rid].status

C36_EntryStatusFollowsTimesheet ==
    \A e \in entries, t \in timesheets :
        t.id = e.ts => e.status = t.status

FrozenPart(rid) ==
    [type |-> requests[rid].type,
     status |-> requests[rid].status,
     days |-> {[date |-> d.date, hours |-> d.hours] : d \in DaysOf(rid)}]

\* C39: while a request is partially accepted (or saved) it is frozen: every
\* Update and every Delete of it is rejected and changes nothing, and in every
\* step that is not a successful Review of it the request keeps existing with
\* its status, its type and its day list (dates and amounts).
C39_FrozenUntilReview ==
    /\ [](\A rid \in DOMAIN requests :
            requests[rid].status \in {PARTIALLY_ACCEPTED, SAVED} =>
              /\ \A typ \in {""} \cup AbsenceRequestType, dl \in {<<>>} \cup FullDayLists,
                    st \in {"", PENDING, PARTIALLY_ACCEPTED}, hr \in BOOLEAN :
                    ~ENABLED (/\ UpdateAbsenceRequest(rid, typ, dl, st, hr)
                              /\ ~(resp'.code = 400 /\ UNCHANGED db))
              /\ ~ENABLED (/\ DeleteAbsenceRequest(rid)
                           /\ ~(resp'.code = 400 /\ UNCHANGED db)))
    /\ [][\A rid \in DOMAIN requests :
            (/\ requests[rid].status \in {PARTIALLY_ACCEPTED, SAVED}
             /\ ~(resp'.op = "review" /\ resp'.code = 200 /\ resp'.rid = rid))
            => /\ rid \in DOMAIN requests'
               /\ FrozenPart(rid)' = FrozenPart(rid)]_vars

\* C39 witness: an Update or a Delete was rejected for the status of the
\* request while every request is partially accepted or saved, one of each
C39_Witness ==
    /\ resp.op \in {"update", "delete"} /\ resp.code = 400 /\ resp.err = "status"
    /\ \E rid \in DOMAIN requests : requests[rid].status = PARTIALLY_ACCEPTED
    /\ \E rid \in DOMAIN requests : requests[rid].status = SAVED
    /\ \A rid \in DOMAIN requests : requests[rid].status \in {PARTIALLY_ACCEPTED, SAVED}

====
